---- MODULE Spec2Model ----
(***************************************************************************)
(* Model of wunderground-proxy-cache (src/src/main.rs): an axum service    *)
(* whose handlers `current` and `forecast` read through a shared           *)
(* Arc<RwLock<HashMap<String, CachedEntry>>> with a TTL in whole seconds.  *)
(*                                                                         *)
(* Strings are sequences of one-character strings.  Option<T> and          *)
(* Result<T> are sequences of length 0 (None / Err) or 1 (Some / Ok).      *)
(* An Instant is a number of clock ticks; TicksPerSec ticks make a second. *)
(***************************************************************************)
EXTENDS Integers, Sequences, FiniteSets, TLC

\* ---- bounds ----
NumHandlers == 2
MaxRequests == 2
MaxTime == 2
TicksPerSec == 2
MaxTTL == 1
MaxStrLen == 2

Handlers == 1..NumHandlers

VARIABLES
    now,            \* the monotonic clock read by Instant::now(), in ticks
    config,         \* AppConfig (cache_duration_secs)
    cached_entries, \* the HashMap behind state.cached_entries
    readers,        \* handlers holding a read guard of the RwLock
    writer,         \* handlers holding the write guard of the RwLock
    pc,             \* position of each handler task
    route,          \* which handler the task runs: "current" or "forecast"
    query,          \* ForecastQueryParams of the request
    cache_key,      \* the key the handler uses
    upstream,       \* the upstream reply the handler's fetch received
    json,           \* the handler's local json (Option<Value>)
    fetches,        \* fetcher calls made by the handler's current request
    nreq,           \* requests accepted so far
    last,           \* the request that ended last, as its client saw it
    put_response,   \* per key: the response of the request that inserted last
    stale_found,    \* the handler's get found an entry that filter dropped
    fetched_after,  \* pairs <<q, p>> of handlers holding a fetched value for
                    \* one key, not yet inserted, q's fetch returned first
    superseded,     \* the entry under the handler's key holds a payload
                    \* fetched after the one the handler is about to insert
    keyIn,          \* key derivation study: two (geocode, language) pairs
    keyOut          \* key derivation study: the two derived keys

vars == <<now, config, cached_entries, readers, writer, pc, route, query,
          cache_key, upstream, json, fetches, nreq, last, put_response,
          stale_found, fetched_after, superseded, keyIn, keyOut>>

\* ---- strings ----
Alphabet == {"a", "_"}

RECURSIVE StringsUpTo(_)
StringsUpTo(n) ==
    IF n = 0 THEN {<<>>}
    ELSE LET S == StringsUpTo(n - 1)
         IN  S \cup {Append(s, c) : s \in {t \in S : Len(t) = n - 1}, c \in Alphabet}

Strings == StringsUpTo(MaxStrLen)

\* constants::CURRENT and constants::FORECAST
CURRENT == <<"c", "u", "r", "r", "e", "n", "t">>
FORECAST == <<"f", "o", "r", "e", "c", "a", "s", "t">>

\* format!("{FORECAST}_{geocode}_{language}")
ForecastKey(geocode, language) ==
    FORECAST \o <<"_">> \o geocode \o <<"_">> \o language

\* the parameter combinations clients send in the handler model
Params == { <<(<<"a">>), (<<"c">>)>>,
            <<(<<"a">>), (<<"_">>)>> }

NoQuery == <<(<<>>), (<<>>)>>

\* ---- Option / Result ----
None == <<>>
Some(x) == <<x>>
IsSome(o) == Len(o) = 1
Unwrap(o) == o[1]

\* ---- upstream ----
\* the forecast URL built without the language parameter
ForecastUrl_nolang(geocode, language) == <<"forecast/daily/5day", geocode, <<>>>>

\* the URL a fetch goes to: fetch_current_json / fetch_forecast_json
CurrentUrl == <<"observations/current", <<>>, <<>>>>
ForecastUrl(geocode, language) == <<"forecast/daily/5day", geocode, language>>

\* the payloads upstream may serve for one URL; the service never looks
\* into a payload
Versions == {1, 2}

\* an upstream reply: status 0 stands for a transport error or the 5 s
\* timeout; body is None when it is not JSON, else Some(version)
Replies ==
    {[status |-> 0, body |-> None]}
    \cup [status : {200, 500}, body : {None} \cup {Some(v) : v \in Versions}]

\* fetch_json with the error replaced by a default value (unwrap_or_default)
fetch_json_default(url, reply) ==
    IF reply.status = 0 \/ ~IsSome(reply.body)
    THEN Some([url |-> url, ver |-> 0])
    ELSE Some([url |-> url, ver |-> Unwrap(reply.body)])

\* fetch_json: send().await? then json::<Value>().await?
fetch_json(url, reply) ==
    IF reply.status = 0 THEN None
    ELSE IF ~IsSome(reply.body) THEN None
    ELSE Some([url |-> url, ver |-> Unwrap(reply.body)])

\* ---- cache ----
\* CachedEntry stamped with the start of the clock instead of Instant::now()
CachedEntry_epoch(value, fetched_at) == [value |-> value, fetched_at |-> 0]

\* CachedEntry holding an emptied payload instead of json.clone()
CachedEntry_null(value, fetched_at) ==
    [value |-> [url |-> value.url, ver |-> 0], fetched_at |-> fetched_at]

\* CachedEntry { value, fetched_at }
CachedEntry(value, fetched_at) == [value |-> value, fetched_at |-> fetched_at]

\* elapsed seconds rounded up instead of truncated
elapsed_secs_ceil(fetched_at, t) ==
    (t - fetched_at + TicksPerSec - 1) \div TicksPerSec

\* Instant::elapsed().as_secs()
elapsed_secs(fetched_at, t) == (t - fetched_at) \div TicksPerSec

\* the closure with <= in place of <
is_fresh_le(entry, t, cache_duration_secs) ==
    elapsed_secs(entry.fetched_at, t) <= cache_duration_secs

\* the closure passed to filter
is_fresh(entry, t, cache_duration_secs) ==
    elapsed_secs(entry.fetched_at, t) < cache_duration_secs

\* get under CURRENT whatever the key (the lookup of `current` pasted into
\* `forecast`)
get_current(map, key) == IF CURRENT \in DOMAIN map THEN Some(map[CURRENT]) ELSE None

\* HashMap::get(key).cloned()
get(map, key) == IF key \in DOMAIN map THEN Some(map[key]) ELSE None

\* Option::filter
filter(opt, t, cache_duration_secs) ==
    IF IsSome(opt) /\ is_fresh(Unwrap(opt), t, cache_duration_secs)
    THEN opt ELSE None

\* insert into a map that keeps a single slot
insert_only(map, key, entry) == [k \in {key} |-> entry]

\* insert that overwrites the value but keeps the timestamp of the entry
\* already there
insert_merge(map, key, entry) ==
    [k \in (DOMAIN map) \cup {key} |->
        IF k # key THEN map[k]
        ELSE IF key \in DOMAIN map
             THEN [value |-> entry.value, fetched_at |-> map[key].fetched_at]
             ELSE entry]

\* insert that keeps an entry already there (entry().or_insert())
insert_if_absent(map, key, entry) ==
    [k \in (DOMAIN map) \cup {key} |-> IF k \in DOMAIN map THEN map[k] ELSE entry]

\* insert that evicts the entries older than the new one
insert_evict(map, key, entry) ==
    [k \in {k2 \in DOMAIN map : map[k2].fetched_at >= entry.fetched_at} \cup {key}
        |-> IF k = key THEN entry ELSE map[k]]

\* HashMap::insert
insert(map, key, entry) ==
    [k \in (DOMAIN map) \cup {key} |-> IF k = key THEN entry ELSE map[k]]

EmptyMap == [k \in {} |-> 0]


AllKeys == {CURRENT} \cup {ForecastKey(q[1], q[2]) : q \in Params}

\* the URL the handler's fetch goes to
UrlOf(p) ==
    IF route[p] = "current" THEN CurrentUrl
    ELSE ForecastUrl(query[p][1], query[p][2])

\* what a client saw of a request: the key and URL it stood for, whether it
\* was answered from the cache (with which entry), how it ended, the
\* response body, its fetcher calls and inserts, the upstream reply it got,
\* and what its insert returned (HashMap::insert gives back the entry it
\* replaced)
Ended(p, hit, entry, end, resp, nputs, reply) ==
    [key |-> cache_key[p], url |-> UrlOf(p), hit |-> hit, entry |-> entry,
     outcome |-> end, response |-> resp, fetches |-> fetches[p],
     puts |-> nputs, reply |-> reply, replaced |-> None,
     stale |-> stale_found[p], older |-> FALSE]

NoRequest ==
    [key |-> None, url |-> None, hit |-> FALSE, entry |-> None,
     outcome |-> "none", response |-> None, fetches |-> 0, puts |-> 0,
     reply |-> None, replaced |-> None, stale |-> FALSE, older |-> FALSE]

\* ---- initial state: main() after load_config() ----
InitKeyStudy ==
    /\ keyIn = <<NoQuery, NoQuery>>
    /\ keyOut = None

InitServer ==
    /\ now = 0
    /\ config \in [cache_duration_secs : 0..MaxTTL]
    /\ cached_entries = EmptyMap
    /\ readers = {}
    /\ writer = {}
    /\ pc = [p \in Handlers |-> "idle"]
    /\ route = [p \in Handlers |-> "none"]
    /\ query = [p \in Handlers |-> NoQuery]
    /\ cache_key = [p \in Handlers |-> None]
    /\ upstream = [p \in Handlers |-> None]
    /\ json = [p \in Handlers |-> None]
    /\ fetches = [p \in Handlers |-> 0]
    /\ nreq = 0
    /\ last = NoRequest
    /\ put_response = [k \in AllKeys |-> None]
    /\ stale_found = [p \in Handlers |-> FALSE]
    /\ fetched_after = {}
    /\ superseded = [p \in Handlers |-> FALSE]

Init == InitServer /\ InitKeyStudy

keyVars == <<keyIn, keyOut>>
lockVars == <<readers, writer>>
reqVars == <<route, query, cache_key>>
raceVars == <<fetched_after, superseded>>

\* q's fetch returned before p's, both still holding their value
Before(q, p) == <<q, p>> \in fetched_after

\* the handlers that hold a fetched value for p's key
Holding(p) ==
    {q \in Handlers \ {p} :
        pc[q] \in {"write_wait", "writing"} /\ cache_key[q] = cache_key[p]}

\* the pairs without handler p
Without(pairs, p) == {pr \in pairs : pr[1] # p /\ pr[2] # p}

\* the task of handler p is over: its locals are gone
TaskEnds(p) ==
    /\ pc' = [pc EXCEPT ![p] = "idle"]
    /\ route' = [route EXCEPT ![p] = "none"]
    /\ query' = [query EXCEPT ![p] = NoQuery]
    /\ cache_key' = [cache_key EXCEPT ![p] = None]
    /\ upstream' = [upstream EXCEPT ![p] = None]
    /\ json' = [json EXCEPT ![p] = None]
    /\ fetches' = [fetches EXCEPT ![p] = 0]
    /\ stale_found' = [stale_found EXCEPT ![p] = FALSE]

\* ---- the handlers ----
\* axum spawns the handler for an accepted request
Accept(p, r, q, key) ==
    /\ pc[p] = "idle"
    /\ nreq < MaxRequests
    /\ nreq' = nreq + 1
    /\ pc' = [pc EXCEPT ![p] = "read_wait"]
    /\ route' = [route EXCEPT ![p] = r]
    /\ query' = [query EXCEPT ![p] = q]
    /\ cache_key' = [cache_key EXCEPT ![p] = key]
    /\ UNCHANGED <<now, config, cached_entries, lockVars, upstream, json,
                   fetches, last, put_response, stale_found, raceVars,
                   keyVars>>

\* GET /current
current(p) == Accept(p, "current", NoQuery, CURRENT)

\* GET /forecast?geocode=..&language=..
forecast(p, geocode, language) ==
    Accept(p, "forecast", <<geocode, language>>, ForecastKey(geocode, language))

\* a read guard handed out while the write guard is held
AcquireRead_nowait(p) ==
    /\ pc[p] = "read_wait"
    /\ readers' = readers \cup {p}
    /\ pc' = [pc EXCEPT ![p] = "reading"]
    /\ UNCHANGED <<now, config, cached_entries, writer, reqVars, upstream,
                   json, fetches, nreq, last, put_response, stale_found,
                   raceVars, keyVars>>

\* state.cached_entries.read().await
AcquireRead(p) ==
    /\ pc[p] = "read_wait"
    /\ writer = {}
    /\ readers' = readers \cup {p}
    /\ pc' = [pc EXCEPT ![p] = "reading"]
    /\ UNCHANGED <<now, config, cached_entries, writer, reqVars, upstream,
                   json, fetches, nreq, last, put_response, stale_found,
                   raceVars, keyVars>>

\* the lookup with the read guard bound outside the block, so that it lives
\* on through the match
Lookup_holding(p) ==
    /\ pc[p] = "reading"
    /\ readers' = readers
    /\ LET cached_value == filter(get(cached_entries, cache_key[p]), now,
                                  config.cache_duration_secs)
       IN  IF IsSome(cached_value)
           THEN /\ last' = Ended(p, TRUE, cached_value, "ok",
                                 Some(Unwrap(cached_value).value), 0, None)
                /\ TaskEnds(p)
           ELSE /\ pc' = [pc EXCEPT ![p] = "fetching"]
                /\ fetches' = [fetches EXCEPT ![p] = @ + 1]
                /\ stale_found' = [stale_found EXCEPT ![p] =
                       IsSome(get(cached_entries, cache_key[p]))]
                /\ UNCHANGED <<last, reqVars, upstream, json>>
    /\ UNCHANGED <<now, config, cached_entries, writer, nreq, put_response,
                   raceVars, keyVars>>

\* get / cloned / filter under the read guard, the guard dropped at the end
\* of the block, then the match: Some answers Json(cached_value.value),
\* None calls the fetcher
Lookup(p) ==
    /\ pc[p] = "reading"
    /\ readers' = readers \ {p}
    /\ LET cached_value == filter(get(cached_entries, cache_key[p]), now,
                                  config.cache_duration_secs)
       IN  IF IsSome(cached_value)
           THEN /\ last' = Ended(p, TRUE, cached_value, "ok",
                                 Some(Unwrap(cached_value).value), 0, None)
                /\ TaskEnds(p)
           ELSE /\ pc' = [pc EXCEPT ![p] = "fetching"]
                /\ fetches' = [fetches EXCEPT ![p] = @ + 1]
                /\ stale_found' = [stale_found EXCEPT ![p] =
                       IsSome(get(cached_entries, cache_key[p]))]
                /\ UNCHANGED <<last, reqVars, upstream, json>>
    /\ UNCHANGED <<now, config, cached_entries, writer, nreq, put_response,
                   raceVars, keyVars>>

\* variant: a failed fetch answers with the entry under the key, whatever
\* its age, when there is one
FetchReturn_fallback(p, reply) ==
    /\ pc[p] = "fetching"
    /\ LET res == fetch_json(UrlOf(p), reply)
       IN  IF IsSome(res)
           THEN /\ upstream' = [upstream EXCEPT ![p] = Some(reply)]
                /\ json' = [json EXCEPT ![p] = res]
                /\ pc' = [pc EXCEPT ![p] = "write_wait"]
                /\ fetched_after' =
                     fetched_after \cup {<<q, p>> : q \in Holding(p)}
                /\ UNCHANGED <<last, reqVars, fetches, stale_found>>
           ELSE /\ last' =
                     IF cache_key[p] \in DOMAIN cached_entries
                     THEN Ended(p, FALSE, None, "ok",
                                Some(cached_entries[cache_key[p]].value), 0,
                                Some(reply))
                     ELSE Ended(p, FALSE, None, "aborted", None, 0,
                                Some(reply))
                /\ TaskEnds(p)
                /\ UNCHANGED fetched_after
    /\ UNCHANGED <<now, config, cached_entries, lockVars, nreq, put_response,
                   superseded, keyVars>>

\* the fetch returns; .unwrap() panics on Err: the task is aborted and the
\* client gets no response
FetchReturn(p, reply) ==
    /\ pc[p] = "fetching"
    /\ LET res == fetch_json(UrlOf(p), reply)
       IN  IF IsSome(res)
           THEN /\ upstream' = [upstream EXCEPT ![p] = Some(reply)]
                /\ json' = [json EXCEPT ![p] = res]
                /\ pc' = [pc EXCEPT ![p] = "write_wait"]
                /\ fetched_after' =
                     fetched_after \cup {<<q, p>> : q \in Holding(p)}
                /\ UNCHANGED <<last, reqVars, fetches, stale_found>>
           ELSE /\ last' = Ended(p, FALSE, None, "aborted", None, 0, Some(reply))
                /\ TaskEnds(p)
                /\ UNCHANGED fetched_after
    /\ UNCHANGED <<now, config, cached_entries, lockVars, nreq, put_response,
                   superseded, keyVars>>

\* state.cached_entries.write().await
AcquireWrite(p) ==
    /\ pc[p] = "write_wait"
    /\ writer = {}
    /\ readers = {}
    /\ writer' = {p}
    /\ pc' = [pc EXCEPT ![p] = "writing"]
    /\ UNCHANGED <<now, config, cached_entries, readers, reqVars, upstream,
                   json, fetches, nreq, last, put_response, stale_found,
                   raceVars, keyVars>>

\* the insert with the write guard leaked instead of dropped
InsertRespond_holding(p) ==
    /\ pc[p] = "writing"
    /\ cached_entries' = insert(cached_entries, cache_key[p],
                                CachedEntry(Unwrap(json[p]), now))
    /\ writer' = writer
    /\ last' = [Ended(p, FALSE, None, "ok", json[p], 1, upstream[p])
                   EXCEPT !.replaced = get(cached_entries, cache_key[p]),
                          !.older = superseded[p]]
    /\ put_response' = [put_response EXCEPT ![cache_key[p]] = json[p]]
    /\ fetched_after' = Without(fetched_after, p)
    /\ superseded' =
          [q \in Handlers |->
              IF q = p THEN FALSE
              ELSE IF pc[q] = "write_wait" /\ cache_key[q] = cache_key[p]
                   THEN Before(q, p)
                   ELSE superseded[q]]
    /\ TaskEnds(p)
    /\ UNCHANGED <<now, config, readers, nreq, keyVars>>

\* variant: the insert is skipped when the entry under the key holds a
\* payload fetched after the handler's own
InsertRespond_newest(p) ==
    /\ pc[p] = "writing"
    /\ cached_entries' =
          IF superseded[p] THEN cached_entries
          ELSE insert(cached_entries, cache_key[p],
                      CachedEntry(Unwrap(json[p]), now))
    /\ writer' = writer \ {p}
    /\ last' = [Ended(p, FALSE, None, "ok", json[p],
                      IF superseded[p] THEN 0 ELSE 1, upstream[p])
                   EXCEPT !.replaced = get(cached_entries, cache_key[p]),
                          !.older = superseded[p]]
    /\ put_response' =
          IF superseded[p] THEN put_response
          ELSE [put_response EXCEPT ![cache_key[p]] = json[p]]
    /\ fetched_after' = Without(fetched_after, p)
    /\ superseded' =
          [q \in Handlers |->
              IF q = p THEN FALSE
              ELSE IF /\ ~superseded[p]
                      /\ pc[q] = "write_wait"
                      /\ cache_key[q] = cache_key[p]
                   THEN Before(q, p)
                   ELSE superseded[q]]
    /\ TaskEnds(p)
    /\ UNCHANGED <<now, config, readers, nreq, keyVars>>

\* insert under the write guard, Json(json), the guard dropped at the end of
\* the arm
InsertRespond(p) ==
    /\ pc[p] = "writing"
    /\ cached_entries' = insert(cached_entries, cache_key[p],
                                CachedEntry(Unwrap(json[p]), now))
    /\ writer' = writer \ {p}
    /\ last' = [Ended(p, FALSE, None, "ok", json[p], 1, upstream[p])
                   EXCEPT !.replaced = get(cached_entries, cache_key[p]),
                          !.older = superseded[p]]
    /\ put_response' = [put_response EXCEPT ![cache_key[p]] = json[p]]
    /\ fetched_after' = Without(fetched_after, p)
    /\ superseded' =
          [q \in Handlers |->
              IF q = p THEN FALSE
              ELSE IF pc[q] = "write_wait" /\ cache_key[q] = cache_key[p]
                   THEN Before(q, p)
                   ELSE superseded[q]]
    /\ TaskEnds(p)
    /\ UNCHANGED <<now, config, readers, nreq, keyVars>>

\* the monotonic clock advances
Tick ==
    /\ now < MaxTime
    /\ now' = now + 1
    /\ UNCHANGED <<config, cached_entries, lockVars, pc, reqVars, upstream,
                   json, fetches, nreq, last, put_response, stale_found,
                   raceVars, keyVars>>

Next ==
    \/ \E p \in Handlers : current(p)
    \/ \E p \in Handlers, q \in Params : forecast(p, q[1], q[2])
    \/ \E p \in Handlers : AcquireRead(p)
    \/ \E p \in Handlers : Lookup(p)
    \/ \E p \in Handlers, reply \in Replies : FetchReturn(p, reply)
    \/ \E p \in Handlers : AcquireWrite(p)
    \/ \E p \in Handlers : InsertRespond(p)
    \/ Tick

Spec == Init /\ [][Next]_vars

\* scheduling: the tokio runtime polls every ready task, the RwLock queues
\* its waiters fairly, and an upstream call returns or times out after 5 s
Fairness ==
    \A p \in Handlers :
        /\ SF_vars(AcquireRead(p))
        /\ WF_vars(Lookup(p))
        /\ WF_vars(\E reply \in Replies : FetchReturn(p, reply))
        /\ SF_vars(AcquireWrite(p))
        /\ WF_vars(InsertRespond(p))

FairSpec == Spec /\ Fairness

TypeOK ==
    /\ now \in 0..MaxTime
    /\ readers \subseteq Handlers
    /\ writer \subseteq Handlers
    /\ DOMAIN cached_entries \subseteq AllKeys
    /\ nreq \in 0..MaxRequests
    /\ stale_found \in [Handlers -> BOOLEAN]
    /\ superseded \in [Handlers -> BOOLEAN]
    /\ fetched_after \subseteq Handlers \X Handlers
    /\ \A pr \in fetched_after :
         /\ pr[1] # pr[2]
         /\ pr[2] \in Holding(pr[1])
         /\ <<pr[2], pr[1]>> \notin fetched_after

\* ---- key derivation study: forecast's format! applied to any two
\* (geocode, language) pairs of bounded strings ----
InitKey ==
    /\ InitServer
    /\ keyIn \in (Strings \X Strings) \X (Strings \X Strings)
    /\ keyOut = None

DeriveKeys ==
    /\ keyOut = None
    /\ keyOut' = Some(<<ForecastKey(keyIn[1][1], keyIn[1][2]),
                        ForecastKey(keyIn[2][1], keyIn[2][2])>>)
    /\ UNCHANGED <<now, config, cached_entries, lockVars, pc, reqVars,
                   upstream, json, fetches, nreq, last, put_response,
                   stale_found, raceVars, keyIn>>

NextKey == DeriveKeys

SpecKey == InitKey /\ [][NextKey]_vars

\* ---- steps and conditions the properties speak about ----
\* handler p performs its lookup in this step
LookupStep(p) == pc[p] = "reading" /\ pc'[p] # "reading"

\* handler p performs its insert in this step
InsertStep(p) == pc[p] = "writing" /\ pc'[p] # "writing"

\* handler p's fetch returns in this step
FetchStep(p) == pc[p] = "fetching" /\ pc'[p] # "fetching"

\* handler p's request ends in this step, `last` being its record
EndStep(p) == pc[p] # "idle" /\ pc'[p] = "idle"

Present(p) == cache_key[p] \in DOMAIN cached_entries

\* ticks since the entry under p's key was populated
AgeTicks(p) == now - cached_entries[cache_key[p]].fetched_at

\* the reply is one the fetcher reports as Err
ReplyFailed(reply) == reply.status = 0 \/ reply.body = None

\* the payload a reply carries for a URL
ReplyValue(url, reply) == [url |-> url, ver |-> Unwrap(reply.body)]

\* C1: a lookup that finds an entry for the request's key whose age in
\* whole seconds is below the TTL answers with exactly that entry's value,
\* calls no fetcher and leaves the whole store unchanged.
C1_CacheHit ==
    [][\A p \in Handlers :
         (LookupStep(p) /\ Present(p)
            /\ AgeTicks(p) \div TicksPerSec < config.cache_duration_secs)
         => /\ EndStep(p)
            /\ last'.key = cache_key[p]
            /\ last'.response = Some(cached_entries[cache_key[p]].value)
            /\ last'.outcome = "ok"
            /\ last'.fetches = 0
            /\ \A q \in Handlers \ {p} : fetches'[q] = fetches[q]
            /\ cached_entries' = cached_entries]_vars

\* a forecast request was answered from the cache
C1_Witness ==
    /\ last.hit /\ last.outcome = "ok" /\ last.fetches = 0
    /\ last.key # CURRENT
    /\ last.response = Some(cached_entries[last.key].value)

\* C2: a lookup that finds the key absent or stale calls the fetcher, a
\* request calls it exactly once, and after a successful fetch the insert
\* puts the fetched value under the request's key with fetched_at = now and
\* the response is that same value.
C2_CacheMiss ==
    /\ [](/\ \A p \in Handlers :
               /\ fetches[p] <= 1
               /\ pc[p] \in {"fetching", "write_wait", "writing"}
                     => fetches[p] = 1
          /\ (last.outcome # "none" /\ ~last.hit) => last.fetches = 1)
    /\ [][\A p \in Handlers :
            /\ (LookupStep(p)
                  /\ (~Present(p)
                        \/ AgeTicks(p) \div TicksPerSec
                              >= config.cache_duration_secs))
               => (pc'[p] = "fetching" /\ fetches'[p] = 1)
            /\ InsertStep(p)
               => /\ cache_key[p] \in DOMAIN cached_entries'
                  /\ cached_entries'[cache_key[p]] =
                        [value |-> ReplyValue(UrlOf(p), Unwrap(upstream[p])),
                         fetched_at |-> now]
                  /\ last'.key = cache_key[p]
                  /\ last'.outcome = "ok"
                  /\ last'.response =
                        Some(ReplyValue(UrlOf(p), Unwrap(upstream[p])))
                  /\ last'.fetches = 1]_vars

\* a request missed, fetched, inserted at a time after start, and answered
C2_Witness ==
    /\ last.outcome = "ok" /\ last.puts = 1 /\ last.fetches = 1
    /\ last.key \in DOMAIN cached_entries
    /\ cached_entries[last.key].fetched_at > 0
    /\ last.response = Some(cached_entries[last.key].value)

\* C3: a request whose fetcher call fails never inserts: the step in which
\* the fetch fails ends the request with no insert and leaves the store
\* unchanged, so a key that was absent stays absent; no handler on its way
\* to the insert holds a failed reply.
C3_FailedFetchNoWrite ==
    /\ [](/\ \A p \in Handlers :
               IsSome(upstream[p]) => ~ReplyFailed(Unwrap(upstream[p]))
          /\ (IsSome(last.reply) /\ ReplyFailed(Unwrap(last.reply)))
                => last.puts = 0)
    /\ [][\A p \in Handlers :
            (FetchStep(p) /\ EndStep(p))
            => /\ cached_entries' = cached_entries
               /\ last'.puts = 0
               /\ ReplyFailed(Unwrap(last'.reply))]_vars

\* a fetch failed on a cold key and the key is still absent
C3_Witness ==
    /\ IsSome(last.reply) /\ ReplyFailed(Unwrap(last.reply))
    /\ last.puts = 0
    /\ last.key \notin DOMAIN cached_entries

\* C4: a request whose fetcher call fails ends with an error response
\* delivered to the client, never with an aborted handler and no response.
C4_ErrorResponse ==
    (IsSome(last.reply) /\ ReplyFailed(Unwrap(last.reply)))
    => last.outcome = "error"

\* C5: an upstream reply whose status is not a success status is a fetch
\* failure: its body is never taken as the fetched value, never stored and
\* never answered to the client.
C5_NonSuccessIsFailure ==
    /\ \A p \in Handlers :
         IsSome(upstream[p]) => Unwrap(upstream[p]).status \in 200..299
    /\ (IsSome(last.reply) /\ Unwrap(last.reply).status \notin 200..299)
         => (last.puts = 0 /\ last.outcome # "ok")

\* C6: a lookup treats a present entry as stale (and goes to fetch) if and
\* only if the whole seconds elapsed since fetched_at are >= the TTL.
C6_StalenessPredicate ==
    [][\A p \in Handlers :
         (LookupStep(p) /\ Present(p))
         => (pc'[p] = "fetching"
              <=> (AgeTicks(p) \div TicksPerSec >= config.cache_duration_secs))]_vars

\* an entry aged a whole TTL >= 1 was found stale
C6_Witness ==
    \E p \in Handlers :
        /\ pc[p] = "fetching" /\ Present(p)
        /\ config.cache_duration_secs >= 1
        /\ AgeTicks(p) >= TicksPerSec * config.cache_duration_secs
        /\ \A q \in Handlers \ {p} : pc[q] = "idle"

\* C7 as stated: for every TTL >= 0, a lookup with zero whole seconds
\* elapsed since the put never finds the entry stale.
C7_FreshAfterPut ==
    [][\A p \in Handlers :
         (LookupStep(p) /\ Present(p) /\ AgeTicks(p) < TicksPerSec)
         => (EndStep(p) /\ last'.hit)]_vars

\* C7 amended: for every TTL >= 1 a lookup with zero whole seconds elapsed
\* since the put is a hit; for every TTL an entry is found stale only once
\* TTL seconds have elapsed and always from then on; with TTL 0 every
\* lookup is a miss.
C7_TtlCorrectness ==
    [][\A p \in Handlers :
         (LookupStep(p) /\ Present(p))
         => /\ (config.cache_duration_secs >= 1 /\ AgeTicks(p) < TicksPerSec)
                  => (EndStep(p) /\ last'.hit)
            /\ pc'[p] = "fetching"
                  => AgeTicks(p) >= config.cache_duration_secs * TicksPerSec
            /\ AgeTicks(p) >= config.cache_duration_secs * TicksPerSec
                  => pc'[p] = "fetching"
            /\ config.cache_duration_secs = 0 => pc'[p] = "fetching"]_vars

\* a hit less than one second, but more than zero ticks, after the put
C7_Witness ==
    /\ last.hit
    /\ now - Unwrap(last.entry).fetched_at < TicksPerSec
    /\ now - Unwrap(last.entry).fetched_at > 0

\* C8: two forecast requests that differ in (geocode, language) derive
\* different keys, and no forecast key is the key of `current`.
C8_KeysUnique ==
    IsSome(keyOut)
    => /\ keyIn[1] # keyIn[2] => Unwrap(keyOut)[1] # Unwrap(keyOut)[2]
       /\ Unwrap(keyOut)[1] # CURRENT
       /\ Unwrap(keyOut)[2] # CURRENT

\* C9: an insert under key A leaves the presence and the entry of every
\* other key B as they were, and a lookup for a key is a hit only on an
\* entry stored under that very key, which is the value it answers.
C9_KeyIsolation ==
    [][\A p \in Handlers :
         /\ InsertStep(p)
            => \A B \in AllKeys \ {cache_key[p]} :
                 /\ (B \in DOMAIN cached_entries') = (B \in DOMAIN cached_entries)
                 /\ B \in DOMAIN cached_entries
                       => cached_entries'[B] = cached_entries[B]
         /\ (LookupStep(p) /\ ~Present(p)) => pc'[p] = "fetching"
         /\ (LookupStep(p) /\ EndStep(p))
            => (Present(p)
                /\ last'.response = Some(cached_entries[cache_key[p]].value))]_vars

\* a forecast request inserted while the other forecast key was cached
C9_Witness ==
    /\ last.puts = 1 /\ last.key # CURRENT
    /\ \E q \in Params :
         /\ ForecastKey(q[1], q[2]) # last.key
         /\ ForecastKey(q[1], q[2]) \in DOMAIN cached_entries

\* C10: a cycle answered from the cache carries the payload the request
\* that last inserted the key answered, and calls no fetcher; so of two
\* cycles that end one after the other on the same key, the second being
\* a hit, both carry the same payload and at most the first one fetched.
C10_ReadThroughIdempotence ==
    [][/\ \A p \in Handlers :
            (LookupStep(p) /\ EndStep(p))
            => /\ last'.response = put_response[cache_key[p]]
               /\ last'.fetches = 0
       /\ (last' # last /\ last'.hit /\ last.outcome = "ok"
             /\ last.key = last'.key)
          => /\ last'.response = last.response
             /\ last.fetches + last'.fetches <= 1]_vars

\* a hit on a key that a request before it fetched and inserted
C10_Witness ==
    /\ last.hit /\ last.fetches = 0
    /\ IsSome(put_response[last.key])
    /\ last.response = put_response[last.key]

\* C11: an insert on a key that holds an entry replaces the whole entry by
\* the new value with fetched_at = now and touches no other key; a later
\* hit observes exactly the entry in the store, value and fetched_at; the
\* store holds one CachedEntry per present key.
C11_Replacement ==
    /\ [](\A k \in DOMAIN cached_entries :
            /\ DOMAIN cached_entries[k] = {"value", "fetched_at"}
            /\ cached_entries[k].fetched_at \in 0..now
            /\ IsSome(put_response[k])
            /\ cached_entries[k].value = Unwrap(put_response[k]))
    /\ [][\A p \in Handlers :
            /\ InsertStep(p)
               => /\ DOMAIN cached_entries' = DOMAIN cached_entries \cup {cache_key[p]}
                  /\ cached_entries'[cache_key[p]] =
                        [value |-> Unwrap(json[p]), fetched_at |-> now]
                  /\ last'.replaced = get(cached_entries, cache_key[p])
            /\ (LookupStep(p) /\ EndStep(p))
               => last'.entry = Some(cached_entries[cache_key[p]])]_vars

\* an insert replaced an entry that held another payload at another time
C11_Witness ==
    /\ last.puts = 1 /\ IsSome(last.replaced)
    /\ Unwrap(last.replaced).value # Unwrap(last.response)
    /\ Unwrap(last.replaced).fetched_at < cached_entries[last.key].fetched_at
    /\ cached_entries[last.key].value = Unwrap(last.response)

\* C12: handlers that put concurrently on distinct keys do not disturb one
\* another: an insert stores its handler's value, leaves every other
\* present key with the value last put there, and leaves the pending put
\* of every handler waiting for the write lock intact; and every handler
\* waiting for the write lock gets to complete its put.
C12_ConcurrentWriteSafety ==
    /\ [][\A p \in Handlers :
            InsertStep(p)
            => /\ cached_entries'[cache_key[p]].value = Unwrap(json[p])
               /\ \A k \in DOMAIN cached_entries \ {cache_key[p]} :
                    /\ k \in DOMAIN cached_entries'
                    /\ cached_entries'[k].value = Unwrap(put_response[k])
               /\ \A q \in Handlers \ {p} :
                    pc[q] = "write_wait"
                    => /\ pc'[q] = "write_wait"
                       /\ json'[q] = json[q]
                       /\ cache_key'[q] = cache_key[q]]_vars
    /\ \A p \in Handlers : (pc[p] = "write_wait") ~> (pc[p] = "idle")

\* two requests put on two keys at the same tick, and each key holds what
\* was put there
C12_Witness ==
    /\ \A p \in Handlers : pc[p] = "idle"
    /\ \E k1, k2 \in DOMAIN cached_entries :
         /\ k1 # k2
         /\ cached_entries[k1].fetched_at = now
         /\ cached_entries[k2].fetched_at = now
         /\ cached_entries[k1].value = Unwrap(put_response[k1])
         /\ cached_entries[k2].value = Unwrap(put_response[k2])
         /\ cached_entries[k1].value # cached_entries[k2].value

\* the cache key of the request a URL is fetched for
KeyOfUrl(url) ==
    IF url[1] = "observations/current" THEN CURRENT
    ELSE ForecastKey(url[2], url[3])

\* C13: a successful response carries, unmodified, a payload a fetcher call
\* for the request's key returned: the reply of the request's own fetch
\* when it inserted, the payload of the fetch that populated the entry when
\* it was a hit; and every entry holds a payload fetched for its own key.
C13_PassThrough ==
    /\ last.outcome = "ok"
       => /\ IsSome(last.response)
          /\ KeyOfUrl(Unwrap(last.response).url) = last.key
          /\ Unwrap(last.response).ver \in Versions
          /\ last.puts = 1
                => last.response =
                      Some(ReplyValue(last.url, Unwrap(last.reply)))
          /\ last.hit
                => /\ last.puts = 0
                   /\ last.response = Some(Unwrap(last.entry).value)
                   /\ last.response = put_response[last.key]
    /\ \A k \in DOMAIN cached_entries :
          /\ KeyOfUrl(cached_entries[k].value.url) = k
          /\ cached_entries[k].value.ver \in Versions
    /\ \A p \in Handlers :
          IsSome(json[p])
          => json[p] = Some(ReplyValue(UrlOf(p), Unwrap(upstream[p])))

\* a forecast request answered what its own fetch returned, and the store
\* holds it under the request's key
C13_Witness ==
    /\ last.outcome = "ok" /\ last.puts = 1 /\ last.key # CURRENT
    /\ last.response = Some(ReplyValue(last.url, Unwrap(last.reply)))
    /\ cached_entries[last.key].value = Unwrap(last.response)
    /\ KeyOfUrl(Unwrap(last.response).url) = last.key

\* C14: a handler inside an upstream fetch holds neither the read nor the
\* write guard; a read guard is held only before the request's fetch and
\* the write guard only once the fetch has returned its value.
C14_NoFetchUnderLock ==
    \A p \in Handlers :
        /\ pc[p] = "fetching" => (p \notin readers /\ p \notin writer)
        /\ p \in readers => (fetches[p] = 0 /\ upstream[p] = None)
        /\ p \in writer
              => (fetches[p] = 1 /\ IsSome(upstream[p]) /\ IsSome(json[p]))

\* one handler is inside its fetch while another holds the write guard
C14_Witness ==
    \E p, q \in Handlers :
        p # q /\ pc[p] = "fetching" /\ q \in writer

\* C15: the inserts are unconditional, so when two requests for a key both
\* missed, both fetched and both insert, the entry left is the one of the
\* insert that took the write guard later: after any insert the store
\* holds the inserting request's payload, also when it replaced an entry
\* that was still within its TTL.
C15_LaterPutWins ==
    last.puts = 1
    => /\ last.key \in DOMAIN cached_entries
       /\ cached_entries[last.key].value = Unwrap(last.response)
       /\ put_response[last.key] = last.response
       /\ IsSome(last.replaced)
             => cached_entries[last.key].fetched_at
                   >= Unwrap(last.replaced).fetched_at

\* two requests for one key were in flight together, both fetched and both
\* inserted: the second insert replaced an entry still within its TTL by
\* another payload
C15_Witness ==
    /\ last.puts = 1 /\ last.fetches = 1 /\ IsSome(last.replaced)
    /\ config.cache_duration_secs >= 1
    /\ (now - Unwrap(last.replaced).fetched_at) \div TicksPerSec
          < config.cache_duration_secs
    /\ Unwrap(last.replaced).value # Unwrap(last.response)
    /\ cached_entries[last.key].value = Unwrap(last.response)

\* C16: a handler holds a read guard exactly while it looks up and the
\* write guard exactly while it inserts; either nobody holds the write
\* guard, or one handler does and nobody holds a read guard; lookups happen
\* under a read guard, inserts under the write guard, and the step after
\* taking the write guard is the insert that drops it.
C16_LockDiscipline ==
    /\ [](/\ writer = {} \/ (Cardinality(writer) = 1 /\ readers = {})
          /\ \A p \in Handlers :
               /\ p \in readers <=> pc[p] = "reading"
               /\ p \in writer <=> pc[p] = "writing")
    /\ [][\A p \in Handlers :
            /\ LookupStep(p)
               => (p \in readers /\ writer = {} /\ p \notin readers'
                   /\ cached_entries' = cached_entries)
            /\ InsertStep(p)
               => (writer = {p} /\ readers = {} /\ writer' = {})
            /\ cached_entries' # cached_entries => \E q \in writer : InsertStep(q)
            /\ (p \in writer /\ pc'[p] # pc[p]) => InsertStep(p)]_vars

\* every handler holds a read guard at the same time
C16_Witness ==
    /\ readers = Handlers
    /\ Cardinality(readers) >= 2
    /\ writer = {}

\* C17: under fair scheduling, with every upstream call returning or timing
\* out, a handler waiting for the read guard gets it, a handler waiting for
\* the write guard gets it, and every request ends; a request that ends on
\* a failed fetch holds no guard then and changes no guard.
C17_EventualCompletion ==
    /\ \A p \in Handlers : (pc[p] = "read_wait") ~> (p \in readers)
    /\ \A p \in Handlers : (pc[p] = "write_wait") ~> (p \in writer)
    /\ \A p \in Handlers : (pc[p] # "idle") ~> (pc[p] = "idle")
    /\ [][\A p \in Handlers :
            (FetchStep(p) /\ EndStep(p))
            => /\ p \notin readers /\ p \notin writer
               /\ readers' = readers /\ writer' = writer
               /\ last'.outcome = "aborted"]_vars

\* a handler has to wait for the write guard while another holds a read
\* guard
C17_Witness ==
    /\ \E p, q \in Handlers :
         p # q /\ pc[p] = "write_wait" /\ q \in readers
    /\ writer = {}

\* C18: the store starts empty; a key becomes present only in the insert
\* step of a request for that key whose fetch returned a value; a present
\* key stays present, so the set of present keys never shrinks.
C18_StoreLifecycle ==
    /\ cached_entries = EmptyMap
    /\ [][/\ DOMAIN cached_entries \subseteq DOMAIN cached_entries'
          /\ \A k \in DOMAIN cached_entries' \ DOMAIN cached_entries :
               \E p \in Handlers :
                   /\ InsertStep(p)
                   /\ cache_key[p] = k
                   /\ fetches[p] = 1
                   /\ IsSome(upstream[p])
                   /\ ~ReplyFailed(Unwrap(upstream[p]))
                   /\ cached_entries'[k].value =
                         ReplyValue(UrlOf(p), Unwrap(upstream[p]))]_vars

\* all requests are over and every key present holds a stale entry
C18_Witness ==
    /\ \A p \in Handlers : pc[p] = "idle"
    /\ nreq = MaxRequests
    /\ DOMAIN cached_entries # {}
    /\ config.cache_duration_secs >= 1
    /\ \A k \in DOMAIN cached_entries :
         (now - cached_entries[k].fetched_at) \div TicksPerSec
            >= config.cache_duration_secs

\* C19: a stale entry is never served. A lookup that finds an entry whose
\* age has reached the TTL answers nothing and goes on to a fetcher call;
\* when that call fails the request ends without a response, the store,
\* stale entry included, is left as it was; a request that found a stale
\* entry and was answered got the value its own fetcher call returned.
C19_NoFallbackToStale ==
    /\ [][\A p \in Handlers :
            /\ (/\ LookupStep(p) /\ Present(p)
                /\ AgeTicks(p) \div TicksPerSec >= config.cache_duration_secs)
               => /\ ~EndStep(p)
                  /\ last' = last
                  /\ fetches'[p] = fetches[p] + 1
                  /\ stale_found'[p]
            /\ (FetchStep(p) /\ EndStep(p) /\ stale_found[p])
               => /\ last'.stale
                  /\ last'.response = None
                  /\ last'.outcome # "ok"
                  /\ cached_entries' = cached_entries]_vars
    /\ []((last.stale /\ IsSome(last.response))
            => /\ last.fetches = 1
               /\ last.puts = 1
               /\ ~ReplyFailed(Unwrap(last.reply))
               /\ last.response
                     = Some(ReplyValue(last.url, Unwrap(last.reply))))

\* a request found an entry aged a whole TTL >= 1, its fetch failed, and
\* the stale entry is still in the store
C19_Witness ==
    /\ last.stale
    /\ last.outcome = "aborted"
    /\ IsSome(last.reply) /\ ReplyFailed(Unwrap(last.reply))
    /\ config.cache_duration_secs >= 1
    /\ last.key \in DOMAIN cached_entries
    /\ (now - cached_entries[last.key].fetched_at) \div TicksPerSec
          >= config.cache_duration_secs

\* C20 as stated: an insert never replaces a payload by one whose fetch
\* returned earlier than the fetch of the payload it replaces.
C20_NewestDataWins ==
    [][\A p \in Handlers : InsertStep(p) => ~superseded[p]]_vars

\* C20 amended: the insert that takes the write guard later wins,
\* whichever fetch returned first: every insert, also one whose payload was
\* fetched before the payload it replaces, stores its own payload with
\* fetched_at = now, the time of the insert, which is never before the
\* fetched_at of the entry replaced; after such an insert the store holds
\* the payload fetched earlier.
C20_LaterInsertWins ==
    /\ [][\A p \in Handlers :
            InsertStep(p)
            => /\ cached_entries'[cache_key[p]].value = Unwrap(json[p])
               /\ cached_entries'[cache_key[p]].fetched_at = now
               /\ superseded[p]
                    => /\ Present(p)
                       /\ AgeTicks(p) >= 0
                       /\ last'.puts = 1
                       /\ last'.older
                       /\ last'.replaced = Some(cached_entries[cache_key[p]])]_vars
    /\ [](last.older
            => /\ last.puts = 1
               /\ cached_entries[last.key].value = Unwrap(last.response)
               /\ cached_entries[last.key].fetched_at
                     >= Unwrap(last.replaced).fetched_at)

\* two fetches for one key returned two payloads; the request whose fetch
\* returned first inserted last, and its payload is the one in the store
C20_Witness ==
    /\ last.older
    /\ last.puts = 1
    /\ Unwrap(last.replaced).value # Unwrap(last.response)
    /\ cached_entries[last.key].value = Unwrap(last.response)
    /\ \A p \in Handlers : pc[p] = "idle"

====
